---- MODULE Spec2Model ----
(***************************************************************************)
(* Link collection and link cache of the "The Batch" scraper               *)
(* (src/src/scraper/LinkCollector.py, src/src/scraper/BatchScraper.py,     *)
(* src/scraper.py, src/manage_links.py).                                   *)
(*                                                                         *)
(* A URL is a Python str, modelled as a TLA+ string; its characters are     *)
(* its one-character substrings.                                            *)
(***************************************************************************)
EXTENDS Integers, Sequences, FiniteSets, TLC

(***************************************************************************)
(* Python str operations used by the collector.                            *)
(***************************************************************************)

\* s[i - 1], a one-character str
CharAt(s, i) == SubSeq(s, i, i)

\* s.startswith(p)
StartsWith(s, p) ==
    /\ Len(p) <= Len(s)
    /\ SubSeq(s, 1, Len(p)) = p

\* The least 1-based index at which sub occurs in s, 0 when it does not (str.find).
Find(s, sub) ==
    LET hits == {i \in 1..(Len(s) - Len(sub) + 1) : SubSeq(s, i, i + Len(sub) - 1) = sub}
    IN  IF hits = {} THEN 0 ELSE CHOOSE i \in hits : \A j \in hits : i <= j

\* sub in s
Contains(s, sub) == Find(s, sub) # 0

\* s.rstrip('/')
RECURSIVE RStripSlash(_)
RStripSlash(s) ==
    IF s # "" /\ CharAt(s, Len(s)) = "/" THEN RStripSlash(SubSeq(s, 1, Len(s) - 1)) ELSE s

\* s.split(sep)[0]
SplitFirst(s, sep) ==
    LET i == Find(s, sep) IN IF i = 0 THEN s ELSE SubSeq(s, 1, i - 1)

\* s.split(sep)[1]: the text between the first and the second occurrence of sep.
\* Only used where sep occurs in s.
SplitSecond(s, sep) ==
    LET i    == Find(s, sep)
        rest == SubSeq(s, i + Len(sep), Len(s))
    IN  SplitFirst(rest, sep)

\* str(n) for a natural number n
Digits == "0123456789"

RECURSIVE IntToStr(_)
IntToStr(n) ==
    IF n < 10 THEN CharAt(Digits, n + 1)
    ELSE IntToStr(n \div 10) \o CharAt(Digits, (n % 10) + 1)

\* Character classes of the regular expressions.
DigitChars == {CharAt(Digits, i) : i \in 1..10}

LowerChars ==
    {"a","b","c","d","e","f","g","h","i","j","k","l","m",
     "n","o","p","q","r","s","t","u","v","w","x","y","z"}

RomanChars == {"i","v","x"}

SlugChars == LowerChars \cup DigitChars \cup {"-"}

AllIn(s, cls) == \A i \in 1..Len(s) : CharAt(s, i) \in cls

\* Code-point order of the characters that occur in the model's URLs.
AsciiOrder ==
    "#-./0123456789:?abcdefghijklmnopqrstuvwxyz"

Ord(c) == CHOOSE i \in 1..Len(AsciiOrder) : CharAt(AsciiOrder, i) = c

\* a < b for two str values (lexicographic by code point)
RECURSIVE StrLess(_, _)
StrLess(a, b) ==
    IF b = "" THEN FALSE
    ELSE IF a = "" THEN TRUE
    ELSE IF Head(a) = Head(b) THEN StrLess(Tail(a), Tail(b))
    ELSE Ord(Head(a)) < Ord(Head(b))

\* sorted(list(S)) for a set of str
RECURSIVE Sorted(_)
Sorted(S) ==
    IF S = {} THEN <<>>
    ELSE LET m == CHOOSE x \in S : \A y \in S \ {x} : StrLess(x, y)
         IN  <<m>> \o Sorted(S \ {m})

\* set(lst)
Range(lst) == {lst[i] : i \in 1..Len(lst)}

\* lst[:k], with Python's meaning of a negative k
SliceTo(lst, k) ==
    LET stop == IF k < 0 THEN (IF Len(lst) + k < 0 THEN 0 ELSE Len(lst) + k)
                ELSE (IF k > Len(lst) THEN Len(lst) ELSE k)
    IN  SubSeq(lst, 1, stop)

(***************************************************************************)
(* String literals of LinkCollector.py.                                    *)
(***************************************************************************)

base_url ==
    "https://www.deeplearning.ai/the-batch/"

SiteOrigin ==
    "https://www.deeplearning.ai"

BatchSegment == "/the-batch/"

DomainName == "deeplearning.ai"

TagSegment == "/tag/"

PageSegment == "/page/"

invalid_patterns ==
    << "tag/",
       "page/",
       "about",
       "category/",
       "search",
       "archive" >>

exclude_words ==
    { "about",
      "contact",
      "archive",
      "search",
      "index" }

IssuePrefix == "issue-"

(***************************************************************************)
(* URL classifier.                                                         *)
(***************************************************************************)

\* r'^issue-\d+$'
MatchIssueNumber(s) ==
    /\ StartsWith(s, IssuePrefix)
    /\ Len(s) > Len(IssuePrefix)
    /\ AllIn(SubSeq(s, Len(IssuePrefix) + 1, Len(s)), DigitChars)

\* r'^issue-[ivx]+$'
MatchIssueRoman(s) ==
    /\ StartsWith(s, IssuePrefix)
    /\ Len(s) > Len(IssuePrefix)
    /\ AllIn(SubSeq(s, Len(IssuePrefix) + 1, Len(s)), RomanChars)

\* r'^[a-z0-9-]+[a-z0-9]$'
MatchArticleTitle(s) ==
    /\ Len(s) >= 2
    /\ AllIn(s, SlugChars)
    /\ CharAt(s, Len(s)) # "-"

\* r'^[a-z0-9-]+$'
MatchSlug(s) == Len(s) >= 1 /\ AllIn(s, SlugChars)

\* _is_valid_article_link without the loop over invalid_patterns.
_is_valid_article_link_NoPrefixes(url) ==
    LET clean_url  == RStripSlash(url)
        base_clean == RStripSlash(base_url)
    IN  IF clean_url = base_clean THEN FALSE
        ELSE IF ~Contains(clean_url, BatchSegment) THEN FALSE
        ELSE LET batch_part == SplitSecond(clean_url, BatchSegment)
             IN  IF Len(batch_part) <= 1 THEN FALSE
                 ELSE IF \/ MatchIssueNumber(batch_part)
                         \/ MatchIssueRoman(batch_part)
                         \/ MatchArticleTitle(batch_part) THEN TRUE
                 ELSE IF /\ MatchSlug(batch_part)
                         /\ Len(batch_part) > 3
                         /\ batch_part \notin exclude_words THEN TRUE
                 ELSE FALSE

_is_valid_article_link(url) ==
    LET clean_url  == RStripSlash(url)
        base_clean == RStripSlash(base_url)
    IN  IF clean_url = base_clean THEN FALSE
        ELSE IF ~Contains(clean_url, BatchSegment) THEN FALSE
        ELSE LET batch_part == SplitSecond(clean_url, BatchSegment)
             IN  IF Len(batch_part) <= 1 THEN FALSE
                 ELSE IF \E i \in 1..Len(invalid_patterns) :
                             StartsWith(batch_part, invalid_patterns[i]) THEN FALSE
                 ELSE IF \/ MatchIssueNumber(batch_part)
                         \/ MatchIssueRoman(batch_part)
                         \/ MatchArticleTitle(batch_part) THEN TRUE
                 ELSE IF /\ MatchSlug(batch_part)
                         /\ Len(batch_part) > 3
                         /\ batch_part \notin exclude_words THEN TRUE
                 ELSE FALSE

_is_catalog_link(url) == Contains(url, TagSegment) /\ ~Contains(url, PageSegment)

(***************************************************************************)
(* The site.  A rendered page is the set of raw href values of its anchors. *)
(***************************************************************************)

HrefIssue == "/the-batch/issue-1/"

HrefTitle ==
    "https://www.deeplearning.ai/the-batch/on-ai#c"

HrefTagA == "/the-batch/tag/a/"

HrefTagB == "/the-batch/tag/b"

HrefPage2 == "/the-batch/page/2/"

Hrefs == {HrefIssue, HrefTitle, HrefTagA, HrefTagB, HrefPage2}

\* The largest max_pages argument the model passes to a walk.
MaxPages == 4

(***************************************************************************)
(* _extract_links_from_page: one href, then the whole page.                *)
(***************************************************************************)

\* href made absolute when root-relative
AbsoluteHref(href) == IF StartsWith(href, "/") THEN SiteOrigin \o href ELSE href

\* the test that keeps an href
IsBatchHref(href) == Contains(href, BatchSegment) /\ Contains(href, DomainName)

\* href.split('?')[0].split('#')[0].rstrip('/')
CleanUrl(href) == RStripSlash(SplitFirst(SplitFirst(href, "?"), "#"))

\* Per href of the model: the set of links it contributes (empty or one element).
ExtractedFrom ==
    [h \in Hrefs |->
        LET abs == AbsoluteHref(h)
        IN  IF IsBatchHref(abs) THEN {CleanUrl(abs)} ELSE {}]

_extract_links_from_page(hrefs) == UNION {ExtractedFrom[h] : h \in hrefs}

\* Every link a page of the model can yield.
Links == _extract_links_from_page(Hrefs)

\* Links as _extract_links_from_page returns them, for _categorize_links alone:
\* articles, catalogs, links that are neither, and links that pass both
\* classifiers (a /tag/ segment before /the-batch/).
CategorizeInputs ==
    {base_url \o "issue-1", base_url \o "on-ai", base_url \o "contact",
     base_url \o "tag/a", base_url \o "tag/b",
     base_url \o "page/2", base_url \o "tag/a/page/2",
     SiteOrigin \o "/tag" \o BatchSegment \o "on-ai",
     SiteOrigin \o "/tag" \o BatchSegment \o "issue-2"}

\* The two classifiers on the links of the model.
IsArticle == [l \in Links \cup CategorizeInputs |-> _is_valid_article_link(l)]

IsCatalog == [l \in Links \cup CategorizeInputs |-> _is_catalog_link(l)]

(***************************************************************************)
(* _categorize_links: the loop classifies every link; an article link is   *)
(* never tested as a catalog (elif).                                       *)
(***************************************************************************)

CategorizedArticles(links, found_articles) ==
    found_articles \cup {l \in links : IsArticle[l]}

\* CategorizedCatalogs with if in place of elif: an article link is tested as a
\* catalog too.
CategorizedCatalogs_NoElif(links, found_catalogs) ==
    found_catalogs \cup {l \in links : IsCatalog[l]}

CategorizedCatalogs(links, found_catalogs) ==
    found_catalogs \cup {l \in links : ~IsArticle[l] /\ IsCatalog[l]}

(***************************************************************************)
(* What page.goto and the two waits of one loop iteration can give.        *)
(*   kind "raise": page.goto raises (navigation error, 30 s timeout)       *)
(*   kind "404"  : the document holds the text 404                         *)
(*   kind "page" : a document with the anchors hrefs; selector_timeout     *)
(*                 says that wait_for_selector('a[href*="/the-batch/"]')   *)
(*                 raised TimeoutError, which it must when no anchor of    *)
(*                 the document matches the selector.                      *)
(***************************************************************************)

MatchesSelector == [h \in Hrefs |-> Contains(h, BatchSegment)]

GotoRaises == [kind |-> "raise", hrefs |-> {}, selector_timeout |-> FALSE]

NotFoundPage == [kind |-> "404", hrefs |-> {}, selector_timeout |-> FALSE]

Rendered(H, t) == [kind |-> "page", hrefs |-> H, selector_timeout |-> t]

AllResponses ==
    {GotoRaises, NotFoundPage}
    \cup {Rendered(H, TRUE) : H \in SUBSET Hrefs}
    \cup {Rendered(H, FALSE) : H \in {G \in SUBSET Hrefs : \E h \in G : MatchesSelector[h]}}

(***************************************************************************)
(* One iteration of the while loop of a pagination walk                    *)
(* (_explore_main_pages_with_pagination, _explore_catalog_with_pagination).*)
(* w holds the loop's locals and the collector's three sets; stop_reason   *)
(* names the break (or the loop condition) that ended the loop, and        *)
(* last_fetch what the iteration's page.goto led to.                       *)
(***************************************************************************)

\* page_url of the iteration
BuildPageUrl(root, n) ==
    IF n = 1 THEN root
    ELSE RStripSlash(root) \o PageSegment \o IntToStr(n) \o "/"

\* The roots a walk of the model can have, and their page URLs up to the cap.
Roots == {base_url} \cup {l \in Links : IsCatalog[l]}

PageUrls == [r \in Roots |-> [n \in 1..(MaxPages + 1) |-> BuildPageUrl(r, n)]]

PageUrl(root, n) ==
    IF root \in Roots /\ n \in 1..(MaxPages + 1) THEN PageUrls[root][n]
    ELSE BuildPageUrl(root, n)

Stopped(w, reason, fetch) == [w EXCEPT !.stop_reason = reason, !.last_fetch = fetch]

\* ProcessPage with the else branch (consecutive_empty_pages = 0) left out.
ProcessPage_NoReset(w, page_url, resp) ==
    LET links          == _extract_links_from_page(resp.hrefs)
        article_links  == CategorizedArticles(links, w.found_article_links)
        catalogs       == CategorizedCatalogs(links, w.found_catalog_links)
        articles_found == Cardinality(article_links) - Cardinality(w.found_article_links)
        empties        == IF articles_found = 0 THEN w.consecutive_empty_pages + 1
                          ELSE w.consecutive_empty_pages
        categorized    == [w EXCEPT !.found_article_links = article_links,
                                    !.found_catalog_links = catalogs,
                                    !.consecutive_empty_pages = empties,
                                    !.last_fetch = "processed"]
    IN  IF articles_found = 0 /\ empties >= 3
        THEN [categorized EXCEPT !.stop_reason = "EmptyRun"]
        ELSE [categorized EXCEPT !.visited_pages = @ \cup {page_url},
                                 !.current_page = @ + 1]

\* The body of the try block once page.goto returned a document without 404.
ProcessPage(w, page_url, resp) ==
    LET links          == _extract_links_from_page(resp.hrefs)
        before_count   == Cardinality(w.found_article_links)
        article_links  == CategorizedArticles(links, w.found_article_links)
        catalogs       == CategorizedCatalogs(links, w.found_catalog_links)
        after_count    == Cardinality(article_links)
        articles_found == after_count - before_count
        empties        == IF articles_found = 0 THEN w.consecutive_empty_pages + 1 ELSE 0
        categorized    == [w EXCEPT !.found_article_links = article_links,
                                    !.found_catalog_links = catalogs,
                                    !.consecutive_empty_pages = empties,
                                    !.last_fetch = "processed"]
    IN  IF articles_found = 0 /\ empties >= 3
        THEN [categorized EXCEPT !.stop_reason = "EmptyRun"]
        ELSE [categorized EXCEPT !.visited_pages = @ \cup {page_url},
                                 !.current_page = @ + 1]

\* LoopHead with the cap dropped from the while condition (while True).
LoopHead_NoCap(w, root, max_pages) ==
    IF PageUrl(root, w.current_page) \in w.visited_pages THEN "AlreadyVisited"
    ELSE "fetch"

\* LoopHead without the test of visited_pages.
LoopHead_NoVisitedTest(w, root, max_pages) ==
    IF ~(w.current_page <= max_pages) THEN "MaxPagesReached"
    ELSE "fetch"

\* The while condition and the visited test: the break they lead to, or "fetch".
LoopHead(w, root, max_pages) ==
    IF ~(w.current_page <= max_pages) THEN "MaxPagesReached"
    ELSE IF PageUrl(root, w.current_page) \in w.visited_pages THEN "AlreadyVisited"
    ELSE "fetch"

\* The try block with its except clause: every exception raised in it, by
\* page.goto or by wait_for_selector, is logged and breaks the loop.
TryBlock(w, page_url, resp) ==
    IF resp.kind = "raise" THEN Stopped(w, "FetchError", "goto_raised")
    ELSE IF resp.kind = "404" THEN Stopped(w, "NotFound", "not_found")
    ELSE IF resp.selector_timeout THEN Stopped(w, "FetchError", "selector_timeout")
    ELSE ProcessPage(w, page_url, resp)

WalkIteration(w, root, max_pages, resp) ==
    LET head == LoopHead(w, root, max_pages)
    IN  IF head # "fetch" THEN Stopped(w, head, w.last_fetch)
        ELSE TryBlock(w, PageUrl(root, w.current_page), resp)

\* AfterWalk with an except clause that re-raises: the exception reaches the
\* except clause of collect_all_links, which logs it and returns.
AfterWalk_Reraise(w, after_pc) ==
    IF w.stop_reason = "FetchError" THEN "returned" ELSE after_pc

\* Where control is once the loop has ended: the walk returns to its caller,
\* whatever ended the loop.
AfterWalk(w, after_pc) == after_pc

(***************************************************************************)
(* The link cache file (json).  kind is what a reader finds:               *)
(*   "missing"    no file                                                  *)
(*   "unstatable" stat() fails with an error other than not-found, as in a *)
(*                directory the process may not search (EACCES)            *)
(*   "unreadable" open() raises OSError                                    *)
(*   "malformed"  not JSON: hand-damaged, empty, or cut short by a write   *)
(*   "not_object" JSON that is not an object (data.get raises)             *)
(*   "no_links"   a JSON object without the key 'links'                    *)
(*   "record"     the object _save_links_to_cache writes                   *)
(***************************************************************************)

FileOf(kind) ==
    [kind |-> kind, links |-> <<>>, total_count |-> 0,
     visited_pages |-> 0, catalog_pages_explored |-> 0]

\* cache_data of _save_links_to_cache (last_updated, a wall-clock text, left out)
CacheData(links, n_visited, n_catalogs) ==
    [kind |-> "record", links |-> Sorted(links), total_count |-> Cardinality(links),
     visited_pages |-> n_visited, catalog_pages_explored |-> n_catalogs]

\* [value, exception, logged] of a call
Returned(v) == [value |-> v, exception |-> "none", logged |-> FALSE]

Caught(v) == [value |-> v, exception |-> "none", logged |-> TRUE]

Raised(e) == [value |-> {}, exception |-> e, logged |-> FALSE]

\* The body of the try block of _load_cached_links: open, json.load, data.get.
ReadLinks(file) ==
    CASE file.kind = "unreadable" -> Raised("OSError")
      [] file.kind = "malformed"  -> Raised("JSONDecodeError")
      [] file.kind = "not_object" -> Raised("AttributeError")
      [] file.kind = "no_links"   -> Returned({})
      [] OTHER                    -> Returned(Range(file.links))

\* What self.cache_file.exists() can do.  Path.exists gives False for a file
\* that is not there; a stat error of another kind it re-raises up to
\* Python 3.13 and turns into False from 3.14 on.
ExistsOutcomes(file) ==
    CASE file.kind = "missing"    -> {"false"}
      [] file.kind = "unstatable" -> {"raises", "false"}
      [] OTHER                    -> {"true"}

\* _load_cached_links; exists is the outcome of the exists() call, which is
\* made outside the try block.
_load_cached_links(file, exists) ==
    IF exists = "raises" THEN Raised("PermissionError")
    ELSE IF exists = "true"
    THEN LET r == ReadLinks(file)
         IN  IF r.exception # "none" THEN Caught({}) ELSE r
    ELSE Returned({})

\* _save_links_to_cache; outcome is what the file system does:
\*   "ok"          the file is opened (truncated) and json.dump completes
\*   "open_fails"  open(..., 'w') raises: the file is not touched
\*   "write_fails" open(..., 'w') truncated the file, then json.dump raises
\* The result is [file, exception, logged].
_save_links_to_cache(file, links, n_visited, n_catalogs, outcome) ==
    LET cache_data == CacheData(links, n_visited, n_catalogs)
    IN  CASE outcome = "ok"          -> [file |-> cache_data, exception |-> "none", logged |-> FALSE]
          [] outcome = "open_fails"  -> [file |-> file, exception |-> "none", logged |-> TRUE]
          [] outcome = "write_fails" -> [file |-> FileOf("malformed"), exception |-> "none", logged |-> TRUE]

SaveOutcomes == {"ok", "open_fails", "write_fails"}

\* open(..., 'w') cannot succeed where stat is refused.
SaveOutcomesFor(file) == IF file.kind = "unstatable" THEN {"open_fails"} ELSE SaveOutcomes

(***************************************************************************)
(* State.                                                                  *)
(***************************************************************************)

VARIABLES
    \* the file system and the site
    cache_file,               \* the file at LinkCollector.cache_file
    site,                     \* page URL -> response, for the pages whose content is fixed
    \* LinkCollector
    cached_links,
    visited_pages,
    found_article_links,
    found_catalog_links,
    \* collect_all_links: arguments, position, locals of the running walk
    explore_catalogs,
    max_main_pages,
    max_pages_per_catalog,
    pc,
    catalog_url,
    catalogs_todo,            \* what is left of list(self.found_catalog_links)
    current_page,
    consecutive_empty_pages,
    stop_reason,              \* how the last walk's loop ended, "none" while it runs
    last_fetch,               \* what the walk's last page.goto led to
    \* scrape_articles
    selection,                \* its arguments and links_to_scrape, once computed
    \* history
    loaded,                   \* the file __init__ found and the result of its _load_cached_links
    catalogs_listed,          \* the set listed by _explore_all_catalogs
    walked,                   \* roots of the walks started
    walked_after_raise,       \* a catalog walk started right after a raised page.goto ended a walk
    walk_fetches,             \* page.goto calls of the current walk
    walk_log,                 \* per processed page of the current walk: added no article?
    unharvested,              \* article links rendered by a page whose selector wait timed out
    update_log,               \* per update_cache call: its argument, the write's outcome, the state before
    navigation,               \* the page.goto calls of the collect_all_links runs on this collector
    \* manage_links.validate_links
    validation,               \* its --clean flag, the invalid links it found, its write's outcome
    \* manage_links collect
    max_pages_option,         \* args.max_pages, 0 before the arguments are parsed
    \* the classifiers applied to one URL
    link,
    classified,
    \* BatchScraper._extract_images
    soup,                     \* the parsed document
    images,
    image_descriptions,
    \* BatchScraper.scrape_articles, step 2
    batch_start,              \* i of the for loop over range(0, len(links_to_scrape), BATCH_SIZE)
    tasks,                    \* per position of links_to_scrape: how far its _scrape_article task is
    articles,                 \* self.articles, as the URLs of its Article objects
    \* Playwright
    session                   \* the browser, context and pages of the method that is running

vars ==
    <<cache_file, site, cached_links, visited_pages, found_article_links,
      found_catalog_links, explore_catalogs, max_main_pages, max_pages_per_catalog,
      pc, catalog_url, catalogs_todo, current_page, consecutive_empty_pages,
      stop_reason, last_fetch, selection, loaded, catalogs_listed, walked,
      walked_after_raise, walk_fetches, walk_log, unharvested, update_log, navigation,
      validation, max_pages_option, link, classified, soup, images, image_descriptions,
      batch_start, tasks, articles, session>>

\* What the clients of the collector and the article scraper add to the state.
command_vars ==
    <<validation, max_pages_option, link, classified, soup, images, image_descriptions,
      batch_start, tasks, articles>>

client_vars == <<command_vars, session>>

classify_vars == <<link, classified>>

extract_vars == <<soup, images, image_descriptions>>

batch_vars == <<batch_start, tasks, articles>>

collector_vars == <<cached_links, visited_pages, found_article_links, found_catalog_links>>

args_vars == <<explore_catalogs, max_main_pages, max_pages_per_catalog>>

walk_vars ==
    <<catalog_url, catalogs_todo, current_page, consecutive_empty_pages,
      stop_reason, last_fetch>>

walk_history ==
    <<catalogs_listed, walked, walked_after_raise, walk_fetches, walk_log, unharvested,
      navigation>>

\* No collect_all_links call yet.  run counts the calls; fetched is the page URLs
\* the current call navigated to; again says that it navigated to one of them
\* twice, revisited that it navigated to a URL that was in visited_pages.
NoNavigation == [run |-> 0, fetched |-> {}, again |-> FALSE, revisited |-> FALSE]

\* The most update_cache calls the model makes on one collector.
MaxUpdateCalls == 2

\* max_articles as passed to scrape_articles: -1 is the default of scraper.py.
MaxArticlesArgs == {-1, 0, 1, 2}

NoValidation == [made |-> FALSE, clean |-> FALSE, invalid_links |-> {}, outcome |-> "none"]

\* A document without any of the elements _extract_images looks for.
NoSoup == [og_image |-> "absent", og_description |-> "absent", content_div |-> FALSE, imgs |-> <<>>]

(***************************************************************************)
(* The Playwright session of a method: what it has launched and opened.    *)
(* A page is named by the position of its task in links_to_scrape, the     *)
(* page of collect_all_links by 0.                                         *)
(***************************************************************************)

NoSession == [browser |-> "none", context |-> "none", pages |-> {}]

\* chromium.launch, new_context
Launched == [browser |-> "open", context |-> "open", pages |-> {}]

\* context.close() closes the context with its pages.
CloseContext(s) ==
    IF s.context = "open" THEN [s EXCEPT !.context = "closed", !.pages = {}] ELSE s

\* browser.close() closes the browser with its contexts.
CloseBrowser(s) ==
    IF s.browser = "open" THEN [CloseContext(s) EXCEPT !.browser = "closed"] ELSE s

\* The end of the async with async_playwright() block, left by return or by an
\* exception: Playwright stops and the browsers it launched are closed.
PlaywrightStops(s) == CloseBrowser(s)

\* The session after the block was left because failed raised: the steps before
\* it had succeeded.
StartFailure(failed) ==
    PlaywrightStops(
        IF failed = "launch" THEN NoSession
        ELSE IF failed = "new_context" THEN [NoSession EXCEPT !.browser = "open"]
        ELSE Launched)

\* The client state before any client has run.
ClientsIdle ==
    /\ validation = NoValidation
    /\ max_pages_option = 0
    /\ link = ""
    /\ classified = [made |-> FALSE, article |-> FALSE, catalog |-> FALSE]
    /\ soup = NoSoup
    /\ images = <<>>
    /\ image_descriptions = <<>>
    /\ batch_start = 0
    /\ tasks = <<>>
    /\ articles = <<>>
    /\ session = NoSession

NoSelection ==
    [made |-> FALSE, collect_new_links |-> FALSE, scrape_new_only |-> FALSE,
     max_articles |-> 0, links_to_scrape |-> <<>>]

\* Every ordering of a set, as list(a_set) may give it.
RECURSIVE Orderings(_)
Orderings(S) ==
    IF S = {} THEN {<<>>}
    ELSE UNION {{<<x>> \o rest : rest \in Orderings(S \ {x})} : x \in S}

(***************************************************************************)
(* Initial states: before LinkCollector.__init__.                          *)
(***************************************************************************)

ArticleLinks == {l \in Links : IsArticle[l]}

\* Files a previous run can have left, or that were damaged since.
RecordFiles == {CacheData(L, 0, 0) : L \in SUBSET ArticleLinks}

DamagedFiles ==
    {FileOf(k) : k \in {"unstatable", "unreadable", "malformed", "not_object", "no_links"}}

AllFiles == {FileOf("missing")} \cup DamagedFiles \cup RecordFiles

\* No page's content is fixed: every fetch may give any response.
AnySite == <<>>

InitWith(files, sites, main_caps, catalog_caps) ==
    /\ cache_file \in files
    /\ site \in sites
    /\ explore_catalogs \in BOOLEAN
    /\ max_main_pages \in main_caps
    /\ max_pages_per_catalog \in catalog_caps
    /\ cached_links = {}
    /\ visited_pages = {}
    /\ found_article_links = {}
    /\ found_catalog_links = {}
    /\ pc = "new"
    /\ catalog_url = ""
    /\ catalogs_todo = <<>>
    /\ current_page = 1
    /\ consecutive_empty_pages = 0
    /\ stop_reason = "none"
    /\ last_fetch = "none"
    /\ selection = NoSelection
    /\ loaded = [file |-> FileOf("missing"), result |-> Returned({})]
    /\ catalogs_listed = {}
    /\ walked = {}
    /\ walked_after_raise = FALSE
    /\ walk_fetches = 0
    /\ walk_log = <<>>
    /\ unharvested = {}
    /\ update_log = <<>>
    /\ navigation = NoNavigation
    /\ ClientsIdle

\* The max_pages arguments of the model: the least cap and the largest.
Caps == {1, MaxPages}

Init == InitWith({FileOf("missing")}, {AnySite}, Caps, Caps)

(***************************************************************************)
(* LinkCollector.__init__                                                  *)
(***************************************************************************)

Construct ==
    /\ pc = "new"
    /\ \E exists \in ExistsOutcomes(cache_file) :
          LET r == _load_cached_links(cache_file, exists)
          IN  /\ loaded' = [file |-> cache_file, result |-> r]
              /\ cached_links' = r.value
              /\ pc' = IF r.exception = "none" THEN "idle" ELSE "raised"
    /\ visited_pages' = {}
    /\ found_article_links' = {}
    /\ found_catalog_links' = {}
    /\ UNCHANGED <<cache_file, site, args_vars, walk_vars, selection, walk_history, update_log>>
    /\ UNCHANGED client_vars

(***************************************************************************)
(* collect_all_links                                                       *)
(***************************************************************************)

\* The responses page.goto may give at a page URL.
ResponsesAt(page_url) ==
    IF page_url \in DOMAIN site THEN {site[page_url]} ELSE AllResponses

\* The browser starts and the main walk begins.
CollectAllLinks ==
    /\ pc = "idle"
    /\ pc' = "main"
    /\ current_page' = 1
    /\ consecutive_empty_pages' = 0
    /\ stop_reason' = "none"
    /\ last_fetch' = "none"
    /\ walked' = walked \cup {base_url}
    /\ walk_fetches' = 0
    /\ walk_log' = <<>>
    /\ unharvested' = {}
    /\ navigation' = [navigation EXCEPT !.run = @ + 1, !.fetched = {}]
    /\ UNCHANGED <<cache_file, site, collector_vars, args_vars, catalog_url, catalogs_todo,
                   selection, loaded, catalogs_listed, walked_after_raise, update_log>>
    /\ session' = [Launched EXCEPT !.pages = {0}]
    /\ UNCHANGED command_vars

\* The browser start inside the try block: its exception is caught and logged,
\* and collect_all_links returns.
BrowserFailsToStart_Caught ==
    /\ pc = "idle"
    /\ pc' = "returned"
    /\ UNCHANGED <<cache_file, site, collector_vars, args_vars, walk_vars, selection,
                   loaded, walk_history, update_log>>
    /\ \E failed \in {"launch", "new_context", "new_page"} : session' = StartFailure(failed)
    /\ UNCHANGED command_vars

\* chromium.launch (or new_context, new_page) raises: outside the try block.
BrowserFailsToStart ==
    /\ pc = "idle"
    /\ pc' = "raised"
    /\ UNCHANGED <<cache_file, site, collector_vars, args_vars, walk_vars, selection,
                   loaded, walk_history, update_log>>
    /\ \E failed \in {"launch", "new_context", "new_page"} : session' = StartFailure(failed)
    /\ UNCHANGED command_vars

WalkState ==
    [current_page |-> current_page,
     consecutive_empty_pages |-> consecutive_empty_pages,
     visited_pages |-> visited_pages,
     found_article_links |-> found_article_links,
     found_catalog_links |-> found_catalog_links,
     stop_reason |-> stop_reason,
     last_fetch |-> last_fetch]

\* One loop iteration of the walk rooted at root; when the loop ends, the walk
\* returns to after_pc.
WalkStep(root, max_pages, after_pc) ==
    LET page_url == PageUrl(root, current_page)
        fetches  == LoopHead(WalkState, root, max_pages) = "fetch"
    IN  \E resp \in (IF fetches THEN ResponsesAt(page_url) ELSE {GotoRaises}) :
            LET w == WalkIteration(WalkState, root, max_pages, resp)
            IN  /\ current_page' = w.current_page
                /\ consecutive_empty_pages' = w.consecutive_empty_pages
                /\ visited_pages' = w.visited_pages
                /\ found_article_links' = w.found_article_links
                /\ found_catalog_links' = w.found_catalog_links
                /\ stop_reason' = w.stop_reason
                /\ last_fetch' = w.last_fetch
                /\ pc' = IF w.stop_reason = "none" THEN pc ELSE AfterWalk(w, after_pc)
                /\ walk_fetches' = IF fetches THEN walk_fetches + 1 ELSE walk_fetches
                /\ walk_log' = IF fetches /\ w.last_fetch = "processed"
                               THEN Append(walk_log,
                                           w.found_article_links = found_article_links)
                               ELSE walk_log
                /\ unharvested' = IF fetches /\ w.last_fetch = "selector_timeout"
                                  THEN {l \in _extract_links_from_page(resp.hrefs) :
                                            IsArticle[l]} \ found_article_links
                                  ELSE unharvested
                /\ navigation' =
                      IF fetches
                      THEN [navigation EXCEPT
                               !.fetched = @ \cup {page_url},
                               !.again = @ \/ page_url \in navigation.fetched,
                               !.revisited = @ \/ page_url \in visited_pages]
                      ELSE navigation

\* _explore_main_pages_with_pagination
MainWalkStep ==
    /\ pc = "main"
    /\ WalkStep(base_url, max_main_pages, "main_done")
    /\ UNCHANGED <<cache_file, site, cached_links, args_vars, catalog_url, catalogs_todo,
                   selection, loaded, catalogs_listed, walked, walked_after_raise,
                   update_log>>
    /\ UNCHANGED client_vars

\* _explore_all_catalogs: list(self.found_catalog_links), in whatever order the set gives
ExploreAllCatalogs ==
    /\ pc = "main_done"
    /\ explore_catalogs
    /\ \E order \in Orderings(found_catalog_links) : catalogs_todo' = order
    /\ catalogs_listed' = found_catalog_links
    /\ pc' = "catalogs"
    /\ UNCHANGED <<cache_file, site, collector_vars, args_vars, catalog_url, current_page,
                   consecutive_empty_pages, stop_reason, last_fetch, selection, loaded,
                   walked, walked_after_raise, walk_fetches, walk_log, unharvested, update_log,
                   navigation>>
    /\ UNCHANGED client_vars

\* StartCatalogWalk iterating over the live set self.found_catalog_links
\* instead of the list made from it: any catalog found and not yet walked.
StartCatalogWalk_Live ==
    /\ pc = "catalogs"
    /\ \E c \in found_catalog_links \ walked :
          /\ catalog_url' = c
          /\ catalogs_todo' = SelectSeq(catalogs_todo, LAMBDA x : x # c)
          /\ walked' = walked \cup {c}
    /\ pc' = "catalog"
    /\ current_page' = 1
    /\ consecutive_empty_pages' = 0
    /\ stop_reason' = "none"
    /\ last_fetch' = "none"
    /\ walked_after_raise' = (walked_after_raise \/ last_fetch = "goto_raised")
    /\ walk_fetches' = 0
    /\ walk_log' = <<>>
    /\ unharvested' = {}
    /\ UNCHANGED <<cache_file, site, collector_vars, args_vars, selection, loaded,
                   catalogs_listed, update_log, navigation>>
    /\ UNCHANGED client_vars

\* The for loop of _explore_all_catalogs takes the next catalog.
StartCatalogWalk ==
    /\ pc = "catalogs"
    /\ catalogs_todo # <<>>
    /\ catalog_url' = Head(catalogs_todo)
    /\ catalogs_todo' = Tail(catalogs_todo)
    /\ pc' = "catalog"
    /\ current_page' = 1
    /\ consecutive_empty_pages' = 0
    /\ stop_reason' = "none"
    /\ last_fetch' = "none"
    /\ walked' = walked \cup {Head(catalogs_todo)}
    /\ walked_after_raise' = (walked_after_raise \/ last_fetch = "goto_raised")
    /\ walk_fetches' = 0
    /\ walk_log' = <<>>
    /\ unharvested' = {}
    /\ UNCHANGED <<cache_file, site, collector_vars, args_vars, selection, loaded,
                   catalogs_listed, update_log, navigation>>
    /\ UNCHANGED client_vars

\* _explore_catalog_with_pagination
CatalogWalkStep ==
    /\ pc = "catalog"
    /\ WalkStep(catalog_url, max_pages_per_catalog, "catalogs")
    /\ UNCHANGED <<cache_file, site, cached_links, args_vars, catalog_url, catalogs_todo,
                   selection, loaded, catalogs_listed, walked, walked_after_raise,
                   update_log>>
    /\ UNCHANGED client_vars

\* The try block of collect_all_links is left; finally closes the browser; return.
CollectReturns ==
    /\ \/ pc = "main_done" /\ ~explore_catalogs
       \/ pc = "catalogs" /\ catalogs_todo = <<>>
    /\ pc' = "returned"
    /\ UNCHANGED <<cache_file, site, collector_vars, args_vars, walk_vars, selection,
                   loaded, walk_history, update_log>>
    /\ session' = PlaywrightStops(CloseBrowser(CloseContext(session)))
    /\ UNCHANGED command_vars

(***************************************************************************)
(* get_new_links, get_links_list, update_cache                             *)
(***************************************************************************)

get_new_links(found, cached) == found \ cached

get_links_list(found, cached, new_only) ==
    IF new_only THEN Sorted(get_new_links(found, cached))
    ELSE Sorted(found \cup cached)

\* The links a reader of the cache file gets now.
Persisted(file) ==
    LET results == {_load_cached_links(file, e) : e \in ExistsOutcomes(file)}
    IN  UNION {r.value : r \in results}

\* update_cache that keeps only the links found in this run.
update_cache_NoUnion(save_to_cache, outcome) ==
    IF save_to_cache /\ found_article_links # {}
    THEN LET all_links == found_article_links
             saved     == _save_links_to_cache(cache_file, all_links,
                                               Cardinality(visited_pages),
                                               Cardinality(found_catalog_links), outcome)
         IN  [cached_links |-> all_links, cache_file |-> saved.file,
              wrote |-> TRUE, logged |-> saved.logged]
    ELSE [cached_links |-> cached_links, cache_file |-> cache_file,
          wrote |-> FALSE, logged |-> FALSE]

\* update_cache on the collector's state; the result is the new cached_links and
\* cache file, and whether the write was attempted and logged a failure.
update_cache(save_to_cache, outcome) ==
    IF save_to_cache /\ found_article_links # {}
    THEN LET all_links == cached_links \cup found_article_links
             saved     == _save_links_to_cache(cache_file, all_links,
                                               Cardinality(visited_pages),
                                               Cardinality(found_catalog_links), outcome)
         IN  [cached_links |-> all_links, cache_file |-> saved.file,
              wrote |-> TRUE, logged |-> saved.logged]
    ELSE [cached_links |-> cached_links, cache_file |-> cache_file,
          wrote |-> FALSE, logged |-> FALSE]

\* The entry of update_log for a call.
UpdateEntry(save_to_cache, outcome, u) ==
    [save_to_cache |-> save_to_cache,
     outcome       |-> IF u.wrote THEN outcome ELSE "none",
     logged        |-> u.logged,
     cached_before |-> cached_links,
     file_before   |-> cache_file,
     found         |-> found_article_links]

\* update_cache called by collect_links, by --collect-only, or by any other client
UpdateCache ==
    /\ pc = "returned"
    /\ Len(update_log) < MaxUpdateCalls
    /\ \E save_to_cache \in BOOLEAN, outcome \in SaveOutcomesFor(cache_file) :
          LET u == update_cache(save_to_cache, outcome)
          IN  /\ cached_links' = u.cached_links
              /\ cache_file' = u.cache_file
              /\ update_log' = Append(update_log, UpdateEntry(save_to_cache, outcome, u))
    /\ UNCHANGED <<site, visited_pages, found_article_links, found_catalog_links, args_vars,
                   pc, walk_vars, selection, loaded, walk_history>>
    /\ UNCHANGED client_vars

(***************************************************************************)
(* scrape_articles, step 1: the links to scrape                            *)
(***************************************************************************)

\* collect_new_links: after collect_all_links returned, update the cache and select.
ScrapeSelectAfterCollect ==
    /\ pc = "returned"
    /\ update_log = <<>>
    /\ \E scrape_new_only \in BOOLEAN, max_articles \in MaxArticlesArgs,
          outcome \in SaveOutcomesFor(cache_file) :
          LET u == update_cache(TRUE, outcome)
          IN  /\ cached_links' = u.cached_links
              /\ cache_file' = u.cache_file
              /\ update_log' = Append(update_log, UpdateEntry(TRUE, outcome, u))
              /\ selection' =
                    [made |-> TRUE, collect_new_links |-> TRUE,
                     scrape_new_only |-> scrape_new_only, max_articles |-> max_articles,
                     links_to_scrape |->
                        SliceTo(get_links_list(found_article_links, u.cached_links,
                                               scrape_new_only), max_articles)]
    /\ pc' = "selected"
    /\ UNCHANGED <<site, visited_pages, found_article_links, found_catalog_links, args_vars,
                   walk_vars, loaded, walk_history>>
    /\ UNCHANGED client_vars

\* not collect_new_links: select from the collector as constructed.
ScrapeSelectCached ==
    /\ pc = "idle"
    /\ \E scrape_new_only \in BOOLEAN, max_articles \in MaxArticlesArgs :
          selection' =
             [made |-> TRUE, collect_new_links |-> FALSE,
              scrape_new_only |-> scrape_new_only, max_articles |-> max_articles,
              links_to_scrape |->
                 SliceTo(get_links_list(found_article_links, cached_links, scrape_new_only),
                         max_articles)]
    /\ pc' = "selected"
    /\ UNCHANGED <<cache_file, site, collector_vars, args_vars, walk_vars, loaded,
                   walk_history, update_log>>
    /\ UNCHANGED client_vars

(***************************************************************************)
(* Specifications.                                                         *)
(***************************************************************************)

Next ==
    \/ Construct
    \/ CollectAllLinks
    \/ BrowserFailsToStart
    \/ MainWalkStep
    \/ ExploreAllCatalogs
    \/ StartCatalogWalk
    \/ CatalogWalkStep
    \/ CollectReturns
    \/ UpdateCache
    \/ ScrapeSelectAfterCollect
    \/ ScrapeSelectCached

\* The whole of Next on short walks (every cap 1), from every cache file.
InitCache == InitWith(AllFiles, {AnySite}, {1}, {1})

SpecCache == InitCache /\ [][Next]_vars

\* collect_all_links alone.
NextCollect ==
    \/ Construct
    \/ CollectAllLinks
    \/ BrowserFailsToStart
    \/ MainWalkStep
    \/ ExploreAllCatalogs
    \/ StartCatalogWalk
    \/ CatalogWalkStep
    \/ CollectReturns

\* Any site, no cache file yet, every cap up to MaxPages.
Spec == Init /\ [][NextCollect]_vars

(***************************************************************************)
(* Properties of the pagination walks.                                     *)
(***************************************************************************)

\* max_pages of the walk last started
CurrentCap == IF catalog_url = "" THEN max_main_pages ELSE max_pages_per_catalog

WalkRunning == pc \in {"main", "catalog"}

\* C1: a walk calls page.goto at most max_pages times, whatever the site answers:
\* while the loop runs every fetch so far advanced current_page by one, and
\* current_page never passes max_pages + 1, where the loop condition fails.
C1_WalkFetchesAtMostMaxPages ==
    /\ walk_fetches <= CurrentCap
    /\ WalkRunning => walk_fetches = current_page - 1
    /\ current_page <= CurrentCap + 1

\* A walk ended by the cap after max_pages fetches, the last page still adding articles.
C1_Witness ==
    /\ stop_reason = "MaxPagesReached"
    /\ CurrentCap = MaxPages
    /\ walk_fetches = MaxPages
    /\ ~walk_log[Len(walk_log)]

\* The number of pages at the end of the log that added no article.
RECURSIVE TrailingEmpty(_)
TrailingEmpty(log) ==
    IF log = <<>> \/ ~log[Len(log)] THEN 0
    ELSE 1 + TrailingEmpty(SubSeq(log, 1, Len(log) - 1))

\* C2: consecutive_empty_pages is the number of processed pages in a row, up to
\* the last one, that added nothing to found_article_links; the walk is stopped
\* for emptiness exactly when that number is 3, and it never exceeds 3.
C2_EmptyRunStopsAtThree ==
    /\ consecutive_empty_pages = TrailingEmpty(walk_log)
    /\ (stop_reason = "EmptyRun") <=> (TrailingEmpty(walk_log) = 3)
    /\ TrailingEmpty(walk_log) <= 3
    /\ stop_reason = "EmptyRun" => walk_fetches = Len(walk_log)

\* A walk whose first page added an article and whose next three did not.
C2_Witness ==
    /\ stop_reason = "EmptyRun"
    /\ walk_log = <<FALSE, TRUE, TRUE, TRUE>>

\* C4: a raised page fetch ends only its walk.  collect_all_links raises only
\* when the browser did not start, before any walk; when it returns, the main
\* feed and, with explore_catalogs, every catalog listed after the main walk
\* have been walked.
C4_RaisedFetchEndsOnlyItsWalk ==
    /\ pc = "raised" => walked = {}
    /\ pc = "returned" =>
          walked = {base_url} \cup (IF explore_catalogs THEN catalogs_listed ELSE {})
    /\ pc \in {"catalogs", "catalog", "returned"} /\ explore_catalogs =>
          walked \ {base_url} = catalogs_listed \ Range(catalogs_todo)

\* collect_all_links returned after walking two catalogs, one of them started
\* right after a raised page.goto had ended the walk before it.
C4_Witness ==
    /\ pc = "returned"
    /\ walked_after_raise
    /\ Cardinality(catalogs_listed) = 2

\* C5 as claimed: after a selector-wait timeout the walk is not stopped and the
\* article links the page rendered are in found_article_links.
C5_SelectorTimeoutNonFatal ==
    last_fetch = "selector_timeout" =>
        /\ stop_reason = "none"
        /\ unharvested \subseteq found_article_links

(***************************************************************************)
(* Catalog order.  The site's content is fixed: the main feed lists both   *)
(* catalogs, and every page of catalog a and the first page of catalog b   *)
(* hold one link of the site's choice.                                     *)
(***************************************************************************)

CatalogA == "https://www.deeplearning.ai/the-batch/tag/a"

CatalogB == "https://www.deeplearning.ai/the-batch/tag/b"

OneLinkPages == {Rendered({h}, FALSE) : h \in {HrefIssue, HrefTitle, HrefPage2}}

SiteUrls == {PageUrls[r][n] : r \in Roots, n \in 1..(MaxPages + 1)}

\* The site whose catalog a holds pages_a[n] on page n and whose catalog b
\* holds page_b on its only page.
SiteOf(pages_a, page_b) ==
    [u \in SiteUrls |->
        IF u = base_url THEN Rendered({HrefTagA, HrefTagB}, FALSE)
        ELSE IF u = CatalogB THEN page_b
        ELSE IF \E n \in 1..MaxPages : u = PageUrls[CatalogA][n]
             THEN pages_a[CHOOSE n \in 1..MaxPages : u = PageUrls[CatalogA][n]]
             ELSE NotFoundPage]

FixedSites ==
    {SiteOf(pages_a, page_b) : pages_a \in [1..MaxPages -> OneLinkPages], page_b \in OneLinkPages}

InitFixedSite == InitWith({FileOf("missing")}, FixedSites, {1}, {MaxPages})

SpecFixedSite == InitFixedSite /\ [][NextCollect]_vars

\* A walk run to its end on the fixed site.
RECURSIVE RunWalk(_, _, _)
RunWalk(w, root, max_pages) ==
    IF w.stop_reason # "none" THEN w
    ELSE RunWalk(WalkIteration(w, root, max_pages, site[PageUrl(root, w.current_page)]),
                 root, max_pages)

\* The locals of a walk that starts on the collector state of w.
WalkStart(w) ==
    [w EXCEPT !.current_page = 1, !.consecutive_empty_pages = 0,
              !.stop_reason = "none", !.last_fetch = "none"]

\* The catalog walks of _explore_all_catalogs, in the given order.
RECURSIVE RunCatalogs(_, _)
RunCatalogs(w, order) ==
    IF order = <<>> THEN w
    ELSE RunCatalogs(RunWalk(WalkStart(w), Head(order), max_pages_per_catalog), Tail(order))

\* found_article_links as collect_all_links(explore_catalogs=True) returns it on a
\* new collector, for each order of the catalogs.
ResultsOverOrders ==
    LET new  == [current_page |-> 1, consecutive_empty_pages |-> 0, visited_pages |-> {},
                 found_article_links |-> {}, found_catalog_links |-> {},
                 stop_reason |-> "none", last_fetch |-> "none"]
        main == RunWalk(new, base_url, max_main_pages)
    IN  {RunCatalogs(main, order).found_article_links :
            order \in Orderings(main.found_catalog_links)}

\* C3 as claimed: on the same site content every order of the catalog walks
\* gives the set of article links that this run returned.
C3_CatalogOrderIrrelevant ==
    pc = "returned" /\ explore_catalogs => ResultsOverOrders = {found_article_links}

(***************************************************************************)
(* Properties of the link cache.                                           *)
(***************************************************************************)

Updates == Len(update_log)

LastUpdate == update_log[Updates]

\* cached_links and the cache file as update_cache call i left them.
CachedAfter(i) == IF i = Updates THEN cached_links ELSE update_log[i + 1].cached_before

FileAfter(i) == IF i = Updates THEN cache_file ELSE update_log[i + 1].file_before

\* C6 as claimed: when the write of the last update_cache failed, the failure is
\* logged and the cache file is the file that was there before the call.
C6_FailedSaveKeepsPreviousFile ==
    Updates > 0 /\ LastUpdate.outcome \in {"open_fails", "write_fails"} =>
        /\ LastUpdate.logged
        /\ cache_file = LastUpdate.file_before
        /\ Persisted(cache_file) = Persisted(LastUpdate.file_before)

\* C7 as claimed: with collect_new_links and scrape_new_only, links_to_scrape is
\* the sorted list of the links found in this run that __init__ did not load
\* from the cache, cut to max_articles.
C7_NewOnlySelectsLinksNotCachedAtStart ==
    selection.made /\ selection.collect_new_links /\ selection.scrape_new_only =>
        selection.links_to_scrape =
            SliceTo(Sorted(found_article_links \ loaded.result.value), selection.max_articles)

\* Two update_cache(save_to_cache=True) calls in a row, the second being call i.
SavedTwice(i) ==
    /\ i \in 2..Updates
    /\ update_log[i - 1].save_to_cache
    /\ update_log[i].save_to_cache

C9_SaveOfLoadedSetIsNoOp ==
    \A i \in 1..Updates :
        LET e == update_log[i]
        IN  /\ e.outcome # "none"
            /\ e.found \subseteq e.cached_before
            /\ e.cached_before = Persisted(e.file_before)
            => Persisted(FileAfter(i)) = Persisted(e.file_before)

\* C10 as claimed: _load_cached_links never raises; without a cache file it
\* returns the empty set, and a cache file it cannot read or parse is logged
\* and gives the empty set.
C10_LoadNeverRaises ==
    pc # "new" =>
        /\ loaded.result.exception = "none"
        /\ loaded.file.kind = "missing" =>
              loaded.result.value = {} /\ ~loaded.result.logged
        /\ loaded.file.kind \in {"unstatable", "unreadable", "malformed", "not_object"} =>
              loaded.result.value = {} /\ loaded.result.logged

(***************************************************************************)
(* manage_links.py validate [--clean]                                      *)
(***************************************************************************)

\* Records that hold a link the classifier rejects (a catalog URL), as an
\* edited file or one written under other classifier rules can.
StaleFiles == {CacheData(L \cup {CatalogA}, 0, 0) : L \in {{}, ArticleLinks}}

\* validate_links on a collector it has just constructed.
ValidateLinks ==
    /\ pc = "idle"
    /\ \E clean \in BOOLEAN, outcome \in SaveOutcomesFor(cache_file) :
          LET valid_links   == {l \in cached_links : _is_valid_article_link(l)}
              invalid_links == cached_links \ valid_links
              writes        == invalid_links # {} /\ clean
              saved         == _save_links_to_cache(cache_file, valid_links,
                                                    Cardinality(visited_pages),
                                                    Cardinality(found_catalog_links), outcome)
          IN  /\ cache_file' = IF writes THEN saved.file ELSE cache_file
              /\ validation' = [made |-> TRUE, clean |-> clean,
                                invalid_links |-> invalid_links,
                                outcome |-> IF writes THEN outcome ELSE "none"]
    /\ pc' = "validated"
    /\ UNCHANGED <<site, collector_vars, args_vars, walk_vars, selection, loaded,
                   walk_history, update_log, max_pages_option, classify_vars, extract_vars,
                   batch_vars, session>>

\* manage_links.py: collect (collect_all_links, then update_cache) and validate.
NextManage ==
    \/ Construct
    \/ CollectAllLinks
    \/ BrowserFailsToStart
    \/ MainWalkStep
    \/ ExploreAllCatalogs
    \/ StartCatalogWalk
    \/ CatalogWalkStep
    \/ CollectReturns
    \/ UpdateCache
    \/ ValidateLinks

InitManage == InitWith(RecordFiles \cup StaleFiles, {AnySite}, {1}, {1})

SpecManage == InitManage /\ [][NextManage]_vars

\* The last write of the cache file in this run succeeded.
CacheWritten ==
    \/ Updates > 0 /\ LastUpdate.outcome = "ok"
    \/ validation.made /\ validation.outcome = "ok"

\* C11 as claimed: once update_cache or validate --clean has written the cache
\* file, every link in it passes _is_valid_article_link and total_count is the
\* number of links.
C11_WrittenLinksAreArticles ==
    CacheWritten =>
        /\ cache_file.kind = "record"
        /\ \A i \in 1..Len(cache_file.links) : _is_valid_article_link(cache_file.links[i])
        /\ cache_file.total_count = Len(cache_file.links)

(***************************************************************************)
(* Catalog discovery.                                                      *)
(***************************************************************************)

\* The page URLs of the main-feed walk.
MainPages == {PageUrls[base_url][n] : n \in 1..(MaxPages + 1)}

\* C12: with explore_catalogs the catalog roots walked are among the catalogs
\* that found_catalog_links held when the main walk ended, and by the return
\* they are exactly those; without explore_catalogs no catalog walk starts
\* and only main-feed pages are visited.
C12_CatalogsWalkedAreThoseOfTheMainWalk ==
    /\ walked \ {base_url} \subseteq catalogs_listed
    /\ pc = "returned" /\ explore_catalogs => walked \ {base_url} = catalogs_listed
    /\ WalkRunning \/ pc \in {"main_done", "catalogs", "returned"} => base_url \in walked
    /\ ~explore_catalogs =>
          /\ walked \subseteq {base_url}
          /\ catalogs_listed = {}
          /\ catalog_url = ""
          /\ pc \notin {"catalogs", "catalog"}
          /\ visited_pages \subseteq MainPages

\* A run that returned after walking its one listed catalog, on whose pages
\* it first saw another catalog, which it did not walk.
C12_Witness ==
    /\ pc = "returned"
    /\ explore_catalogs
    /\ Cardinality(catalogs_listed) = 1
    /\ Cardinality(found_catalog_links) = 2
    /\ walked = {base_url} \cup catalogs_listed

\* C13 as claimed: a catalog walk adds nothing to found_catalog_links, which
\* stays the set the main walk left.
C13_CatalogWalksAddNoCatalogs ==
    pc \in {"catalogs", "catalog", "returned"} /\ explore_catalogs =>
        found_catalog_links = catalogs_listed

(***************************************************************************)
(* The classifiers on their own: one URL, built from the base URL, a slug  *)
(* and an ending.                                                          *)
(***************************************************************************)

\* The pieces a slug of the model is made of.
SlugTokens ==
    {"issue-", "tag/", "page/", "about", "category/", "search", "archive",
     "contact", "index", "a", "1", "v", "-", "B"}

\* The most pieces in a slug.
MaxTokens == 3

RECURSIVE TokenStrings(_)
TokenStrings(n) ==
    IF n = 0 THEN {""}
    ELSE LET shorter == TokenStrings(n - 1)
         IN  shorter \cup {s \o t : s \in shorter, t \in SlugTokens}

\* What a URL can end with: nothing, a trailing slash, a query string, a fragment.
UrlEndings == {"", "/", "?q", "#f"}

ClassifierInputs ==
    {base_url \o s \o e : s \in TokenStrings(MaxTokens), e \in UrlEndings}

\* The state the classifier specification starts in.
CollectorUnused ==
    /\ cache_file = FileOf("missing")
    /\ site = AnySite
    /\ explore_catalogs = FALSE
    /\ max_main_pages = 1
    /\ max_pages_per_catalog = 1
    /\ cached_links = {}
    /\ visited_pages = {}
    /\ found_article_links = {}
    /\ found_catalog_links = {}
    /\ catalog_url = ""
    /\ catalogs_todo = <<>>
    /\ current_page = 1
    /\ consecutive_empty_pages = 0
    /\ stop_reason = "none"
    /\ last_fetch = "none"
    /\ loaded = [file |-> FileOf("missing"), result |-> Returned({})]
    /\ catalogs_listed = {}
    /\ walked = {}
    /\ walked_after_raise = FALSE
    /\ walk_fetches = 0
    /\ walk_log = <<>>
    /\ unharvested = {}
    /\ update_log = <<>>
    /\ navigation = NoNavigation

collect_state ==
    <<cache_file, site, collector_vars, args_vars, walk_vars, loaded, walk_history, update_log>>

InitClassify ==
    /\ CollectorUnused
    /\ selection = NoSelection
    /\ validation = NoValidation
    /\ max_pages_option = 0
    /\ link \in ClassifierInputs
    /\ classified = [made |-> FALSE, article |-> FALSE, catalog |-> FALSE]
    /\ soup = NoSoup
    /\ images = <<>>
    /\ image_descriptions = <<>>
    /\ batch_start = 0
    /\ tasks = <<>>
    /\ articles = <<>>
    /\ session = NoSession
    /\ pc = "classify"

\* Both classifiers applied to link, as _categorize_links and validate_links do.
Classify ==
    /\ pc = "classify"
    /\ classified' = [made |-> TRUE,
                      article |-> _is_valid_article_link(link),
                      catalog |-> _is_catalog_link(link)]
    /\ pc' = "classified"
    /\ UNCHANGED <<collect_state, selection, validation, max_pages_option, link, extract_vars,
                   batch_vars, session>>

SpecClassify == InitClassify /\ [][Classify]_vars

\* C14 as claimed: the classifier gives link the answer it gives the
\* normalized link (query string, fragment and trailing slash stripped).
C14_ClassifierIgnoresQueryFragmentSlash ==
    classified.made => classified.article = _is_valid_article_link(CleanUrl(link))

\* What follows the base URL in link, without trailing slashes.
SlugOfLink == RStripSlash(SubSeq(link, Len(base_url) + 1, Len(link)))

ReservedPrefix(slug) ==
    \E p \in {"tag/", "page/", "about", "category/", "search", "archive"} : StartsWith(slug, p)

IssueSlug(slug, numerals) ==
    /\ Len(slug) > 6
    /\ SubSeq(slug, 1, 6) = "issue-"
    /\ \A i \in 7..Len(slug) : CharAt(slug, i) \in numerals

LowercaseHyphenated(slug) ==
    /\ \A i \in 1..Len(slug) : CharAt(slug, i) \in SlugChars
    /\ \/ CharAt(slug, Len(slug)) # "-"
       \/ Len(slug) > 3

UpperLetters == "ABCDEFGHIJKLMNOPQRSTUVWXYZ"

LowerLetters == "abcdefghijklmnopqrstuvwxyz"

\* c.lower() for one character
LowerChar(c) ==
    IF \E i \in 1..Len(UpperLetters) : CharAt(UpperLetters, i) = c
    THEN CharAt(LowerLetters, CHOOSE i \in 1..Len(UpperLetters) : CharAt(UpperLetters, i) = c)
    ELSE c

\* s.lower()
RECURSIVE Lower(_)
Lower(s) == IF s = "" THEN "" ELSE LowerChar(Head(s)) \o Lower(Tail(s))

excluded_words == {"icon", "logo", "avatar", "emoji"}

\* any(x in src.lower() for x in ['icon', 'logo', 'avatar', 'emoji'])
IsExcludedSrc(src) == \E x \in excluded_words : Contains(Lower(src), x)

\* The src and content values of the model's documents.
OgUrl == "https://www.deeplearning.ai/a.png"

ImgSrcs ==
    {"", "/a.png", "https://www.deeplearning.ai/a.png", "https://cdn.example/b.png",
     "/c.png", "/Logo.png"}

\* Per src of the model: is it skipped, and what it is once made absolute.
SrcExcluded == [src \in ImgSrcs |-> IsExcludedSrc(src)]

SrcAbsolute == [src \in ImgSrcs |-> AbsoluteHref(src)]

\* Step 1 without the append to image_descriptions.
OgImage_NoDescription(doc) ==
    IF doc.og_image.present /\ doc.og_image.content # ""
    THEN [images |-> <<doc.og_image.content>>, image_descriptions |-> <<>>]
    ELSE [images |-> <<>>, image_descriptions |-> <<>>]

\* Step 1: the main image from og:image, described by og:description.
OgImage(doc) ==
    IF doc.og_image.present /\ doc.og_image.content # ""
    THEN LET desc == IF doc.og_description.present /\ doc.og_description.content # ""
                     THEN doc.og_description.content ELSE ""
         IN  [images |-> <<doc.og_image.content>>, image_descriptions |-> <<desc>>]
    ELSE [images |-> <<>>, image_descriptions |-> <<>>]

\* Step 2 without the test `src not in images`.
RECURSIVE ContentImages_NoDedup(_, _)
ContentImages_NoDedup(imgs, acc) ==
    IF imgs = <<>> THEN acc
    ELSE LET img == Head(imgs)
             src == SrcAbsolute[img.src]
         IN  IF img.src = "" \/ SrcExcluded[img.src]
             THEN ContentImages_NoDedup(Tail(imgs), acc)
             ELSE ContentImages_NoDedup(Tail(imgs),
                     [images |-> Append(acc.images, src),
                      image_descriptions |-> Append(acc.image_descriptions, img.alt)])

\* Step 2: the loop over content_div.find_all('img').
RECURSIVE ContentImages(_, _)
ContentImages(imgs, acc) ==
    IF imgs = <<>> THEN acc
    ELSE LET img == Head(imgs)
             src == SrcAbsolute[img.src]
         IN  IF img.src = "" THEN ContentImages(Tail(imgs), acc)
             ELSE IF SrcExcluded[img.src] THEN ContentImages(Tail(imgs), acc)
             ELSE IF src \notin Range(acc.images)
             THEN ContentImages(Tail(imgs),
                     [images |-> Append(acc.images, src),
                      image_descriptions |-> Append(acc.image_descriptions, img.alt)])
             ELSE ContentImages(Tail(imgs), acc)

_extract_images(doc) ==
    LET main == OgImage(doc)
    IN  IF doc.content_div THEN ContentImages(doc.imgs, main) ELSE main

\* The documents of the model: every img has alt text but one.
ImgElements == [src : ImgSrcs, alt : {"alt"}] \cup {[src |-> "/c.png", alt |-> ""]}

\* The most img elements in the content div.
MaxImgs == 3

ImgLists == UNION {[1..n -> ImgElements] : n \in 0..MaxImgs}

MetaTags(contents) ==
    {[present |-> FALSE, content |-> ""]} \cup {[present |-> TRUE, content |-> c] : c \in contents}

Soups ==
    {[og_image |-> i, og_description |-> d, content_div |-> TRUE, imgs |-> l] :
        i \in MetaTags({"", OgUrl}), d \in MetaTags({"desc"}), l \in ImgLists}
    \cup {[og_image |-> i, og_description |-> d, content_div |-> FALSE, imgs |-> <<>>] :
        i \in MetaTags({"", OgUrl}), d \in MetaTags({"desc"})}

InitExtract ==
    /\ CollectorUnused
    /\ selection = NoSelection
    /\ validation = NoValidation
    /\ max_pages_option = 0
    /\ link = ""
    /\ classified = [made |-> FALSE, article |-> FALSE, catalog |-> FALSE]
    /\ soup \in Soups
    /\ images = <<>>
    /\ image_descriptions = <<>>
    /\ batch_start = 0
    /\ tasks = <<>>
    /\ articles = <<>>
    /\ session = NoSession
    /\ pc = "parsed"

\* images, image_descriptions = self._extract_images(soup)
ExtractImages ==
    /\ pc = "parsed"
    /\ LET r == _extract_images(soup)
       IN  /\ images' = r.images
           /\ image_descriptions' = r.image_descriptions
    /\ pc' = "extracted"
    /\ UNCHANGED <<collect_state, selection, validation, max_pages_option, classify_vars, soup,
                   batch_vars, session>>

SpecExtract == InitExtract /\ [][ExtractImages]_vars

\* C16: _extract_images returns as many descriptions as images.
C16_ImagesAndDescriptionsSameLength ==
    pc = "extracted" => Len(images) = Len(image_descriptions)

\* og:image and og:description present, two in-content images kept, one without
\* src, all with alt text.
C16_Witness ==
    /\ pc = "extracted"
    /\ soup.og_image.content = OgUrl
    /\ soup.og_description.present
    /\ Len(soup.imgs) = 3
    /\ soup.imgs[2].src = ""
    /\ Len(images) = 3
    /\ Len(image_descriptions) = 3

\* The absolute URLs of the in-content images that have a src and are not excluded.
KeptSrcs ==
    {SrcAbsolute[soup.imgs[i].src] :
        i \in {j \in 1..Len(soup.imgs) : soup.imgs[j].src # "" /\ ~SrcExcluded[soup.imgs[j].src]}}

HasOgImage == soup.og_image.present /\ soup.og_image.content # ""

\* C17: the og:image URL, when the document gives one, is the first image; no
\* URL occurs twice; the images are the og:image URL and the absolute URLs of
\* the in-content images kept, each once.
C17_OgImageFirstNoDuplicates ==
    pc = "extracted" =>
        /\ HasOgImage => Len(images) >= 1 /\ images[1] = soup.og_image.content
        /\ \A i, j \in 1..Len(images) : i # j => images[i] # images[j]
        /\ Range(images) = (IF HasOgImage THEN {soup.og_image.content} ELSE {})
                           \cup (IF soup.content_div THEN KeptSrcs ELSE {})
        /\ Len(images) = Cardinality(Range(images))

\* og:image and three in-content images, the first of which is the og:image
\* again (as a root-relative src): 3 images, og:image first.
C17_Witness ==
    /\ pc = "extracted"
    /\ soup.og_image.content = OgUrl
    /\ Len(soup.imgs) = 3
    /\ soup.imgs[1].src = "/a.png"
    /\ soup.imgs[2].src = "https://cdn.example/b.png"
    /\ soup.imgs[3].src = "/c.png"
    /\ images = <<OgUrl, "https://cdn.example/b.png", "https://www.deeplearning.ai/c.png">>

(***************************************************************************)
(* scrape_articles, step 2: the batches of _scrape_article tasks.          *)
(***************************************************************************)

BATCH_SIZE == 3

MaxLinks == 5

\* Article links as get_links_list returns them: distinct and sorted.
ScrapeLinks(n) == [k \in 1..n |-> base_url \o "issue-" \o IntToStr(k)]

\* A task that has returned or raised.
TaskDone == {"article", "none", "raised"}

\* links_to_scrape[i:i + BATCH_SIZE], as positions of links_to_scrape (i counts from 0)
BatchOf(i) ==
    {k \in 1..Len(selection.links_to_scrape) : i < k /\ k <= i + BATCH_SIZE}

\* The batch a position of links_to_scrape belongs to.
BatchIndex(k) == (k - 1) \div BATCH_SIZE

\* [a for a in articles if isinstance(a, Article)] over the results gather
\* returns for the positions from..to, in the order of the tasks.
RECURSIVE valid_articles(_, _)
valid_articles(from, to) ==
    IF from > to THEN <<>>
    ELSE (IF tasks[from] = "article" THEN <<selection.links_to_scrape[from]>> ELSE <<>>)
         \o valid_articles(from + 1, to)

\* The article pages open in the browser context.
OpenPages == {k \in 1..Len(tasks) : tasks[k] = "page_open"}

\* scrape_articles was called on a new BatchScraper and has its links_to_scrape.
InitScrape ==
    /\ CollectorUnused
    /\ \E n \in 0..MaxLinks :
          selection = [made |-> TRUE, collect_new_links |-> FALSE, scrape_new_only |-> FALSE,
                       max_articles |-> MaxLinks, links_to_scrape |-> ScrapeLinks(n)]
    /\ validation = NoValidation
    /\ max_pages_option = 0
    /\ link = ""
    /\ classified = [made |-> FALSE, article |-> FALSE, catalog |-> FALSE]
    /\ soup = NoSoup
    /\ images = <<>>
    /\ image_descriptions = <<>>
    /\ batch_start = 0
    /\ tasks = <<>>
    /\ articles = <<>>
    /\ session = NoSession
    /\ pc = "selected"

scrape_frame ==
    <<collect_state, selection, validation, max_pages_option, classify_vars, extract_vars>>

\* if not links_to_scrape: return []
NothingToScrape ==
    /\ pc = "selected"
    /\ selection.links_to_scrape = <<>>
    /\ pc' = "scrape_returned"
    /\ UNCHANGED <<scrape_frame, batch_vars, session>>

\* chromium.launch and new_context, then the for loop is entered: the list is not empty.
LaunchBrowser ==
    /\ pc = "selected"
    /\ selection.links_to_scrape # <<>>
    /\ tasks' = [k \in 1..Len(selection.links_to_scrape) |-> "not_created"]
    /\ batch_start' = 0
    /\ pc' = "batch"
    /\ session' = Launched
    /\ UNCHANGED <<scrape_frame, articles>>

\* chromium.launch or new_context raises, outside the try.
LaunchFails ==
    /\ pc = "selected"
    /\ selection.links_to_scrape # <<>>
    /\ pc' = "scrape_raised"
    /\ \E failed \in {"launch", "new_context"} : session' = StartFailure(failed)
    /\ UNCHANGED <<scrape_frame, batch_vars>>

\* batch = links_to_scrape[i:i + BATCH_SIZE]; one coroutine per link; gather makes
\* them tasks and waits.
StartBatch ==
    /\ pc = "batch"
    /\ tasks' = [k \in 1..Len(tasks) |-> IF k \in BatchOf(batch_start) THEN "created" ELSE tasks[k]]
    /\ pc' = "gather"
    /\ UNCHANGED <<scrape_frame, batch_start, articles, session>>

\* _scrape_article: page = await context.new_page(), outside its try.
TaskOpensPage ==
    /\ pc = "gather"
    /\ \E k \in 1..Len(tasks), opened \in BOOLEAN :
          /\ tasks[k] = "created"
          /\ tasks' = [tasks EXCEPT ![k] = IF opened THEN "page_open" ELSE "raised"]
          /\ session' = IF opened THEN [session EXCEPT !.pages = @ \cup {k}] ELSE session
    /\ UNCHANGED <<scrape_frame, batch_start, articles, pc>>

\* _scrape_article without its finally: the page is left open.
TaskEnds_NoFinally ==
    /\ pc = "gather"
    /\ \E k \in 1..Len(tasks), result \in TaskDone :
          /\ tasks[k] = "page_open"
          /\ tasks' = [tasks EXCEPT ![k] = result]
    /\ UNCHANGED <<scrape_frame, batch_start, articles, pc, session>>

\* _scrape_article from its try to its end: the Article is returned, or an exception
\* is caught and None returned; the finally closes the page, and page.close()
\* raising (the page is gone with its browser) makes the task raise.
TaskEnds ==
    /\ pc = "gather"
    /\ \E k \in 1..Len(tasks), result \in TaskDone :
          /\ tasks[k] = "page_open"
          /\ tasks' = [tasks EXCEPT ![k] = result]
          /\ session' = [session EXCEPT !.pages = @ \ {k}]
    /\ UNCHANGED <<scrape_frame, batch_start, articles, pc>>

\* gather(*tasks) where the first exception of a task is raised to the caller at
\* once: the except of scrape_articles ends the loop.
JoinBatch_FirstException ==
    /\ pc = "gather"
    /\ \/ /\ \E k \in BatchOf(batch_start) : tasks[k] = "raised"
          /\ pc' = "closing"
          /\ UNCHANGED <<batch_start, articles>>
       \/ /\ \A k \in BatchOf(batch_start) : tasks[k] \in {"article", "none"}
          /\ articles' = articles \o valid_articles(batch_start + 1, batch_start + BATCH_SIZE)
          /\ IF batch_start + BATCH_SIZE < Len(tasks)
             THEN batch_start' = batch_start + BATCH_SIZE /\ pc' = "batch"
             ELSE batch_start' = batch_start /\ pc' = "closing"
    /\ UNCHANGED <<scrape_frame, tasks, session>>

\* A gather that returns as soon as one task of the batch is done.
JoinBatch_FirstCompleted ==
    /\ pc = "gather"
    /\ \E k \in BatchOf(batch_start) : tasks[k] \in TaskDone
    /\ articles' = articles \o
          valid_articles(batch_start + 1,
                         IF batch_start + BATCH_SIZE > Len(tasks) THEN Len(tasks)
                         ELSE batch_start + BATCH_SIZE)
    /\ IF batch_start + BATCH_SIZE < Len(tasks)
       THEN batch_start' = batch_start + BATCH_SIZE /\ pc' = "batch"
       ELSE batch_start' = batch_start /\ pc' = "closing"
    /\ UNCHANGED <<scrape_frame, tasks, session>>

\* articles = await asyncio.gather(*tasks, return_exceptions=True) returns once
\* every task of the batch is done; self.articles.extend(valid_articles); the for
\* loop takes the next i of range(0, len(links_to_scrape), BATCH_SIZE) or ends.
JoinBatch ==
    /\ pc = "gather"
    /\ \A k \in BatchOf(batch_start) : tasks[k] \in TaskDone
    /\ articles' = articles \o
          valid_articles(batch_start + 1,
                         IF batch_start + BATCH_SIZE > Len(tasks) THEN Len(tasks)
                         ELSE batch_start + BATCH_SIZE)
    /\ IF batch_start + BATCH_SIZE < Len(tasks)
       THEN batch_start' = batch_start + BATCH_SIZE /\ pc' = "batch"
       ELSE batch_start' = batch_start /\ pc' = "closing"
    /\ UNCHANGED <<scrape_frame, tasks, session>>

\* finally: context.close(), browser.close(); then _save_articles(), outside the
\* try; return self.articles. Either of them raising is raised to the caller.
ScrapeReturns ==
    /\ pc = "closing"
    /\ \E raised \in BOOLEAN : pc' = IF raised THEN "scrape_raised" ELSE "scrape_returned"
    /\ session' = PlaywrightStops(CloseBrowser(CloseContext(session)))
    /\ UNCHANGED <<scrape_frame, batch_vars>>

NextScrape ==
    \/ NothingToScrape
    \/ LaunchBrowser
    \/ LaunchFails
    \/ StartBatch
    \/ TaskOpensPage
    \/ TaskEnds
    \/ JoinBatch
    \/ ScrapeReturns

SpecScrape == InitScrape /\ [][NextScrape]_vars

\* C18: the tasks started are those of the batches up to the current one, a task
\* of a batch exists only when every task of the batches before it is done, the
\* tasks not yet done are in one batch, and at most BATCH_SIZE pages are open.
C18_BatchBarrier ==
    /\ \A j, k \in 1..Len(tasks) :
          BatchIndex(j) < BatchIndex(k) /\ tasks[k] # "not_created" => tasks[j] \in TaskDone
    /\ \A j, k \in 1..Len(tasks) :
          tasks[j] \in {"created", "page_open"} /\ tasks[k] \in {"created", "page_open"}
             => BatchIndex(j) = BatchIndex(k)
    /\ Cardinality({k \in 1..Len(tasks) : tasks[k] \in {"created", "page_open"}}) <= BATCH_SIZE
    /\ Cardinality(OpenPages) <= BATCH_SIZE

\* A full first batch ended with a success, a None and a raise, and the pages of
\* the second batch are open.
C18_Witness ==
    /\ Len(tasks) = BATCH_SIZE + 2
    /\ {tasks[k] : k \in 1..BATCH_SIZE} = TaskDone
    /\ \A k \in BATCH_SIZE + 1..Len(tasks) : tasks[k] = "page_open"

\* C19: once the loop has ended every task has run to its end, whatever the others
\* did, and self.articles is the links of the tasks that returned an Article, in the
\* order of links_to_scrape; between batches it is that of the batches joined.
C19_FailedTasksOnlyLoseTheirOwnArticle ==
    /\ pc \in {"closing", "scrape_returned", "scrape_raised"} /\ tasks # <<>> =>
          /\ \A k \in 1..Len(tasks) : tasks[k] \in TaskDone
          /\ articles = valid_articles(1, Len(tasks))
    /\ pc \in {"batch", "gather"} => articles = valid_articles(1, batch_start)

\* scrape_articles returned after two batches; in each a task raised or returned
\* None and another returned its Article.
C19_Witness ==
    /\ pc = "scrape_returned"
    /\ Len(tasks) = BATCH_SIZE + 2
    /\ tasks[1] = "raised" /\ tasks[2] = "article" /\ tasks[3] = "none"
    /\ tasks[4] = "none" /\ tasks[5] = "article"
    /\ articles = <<selection.links_to_scrape[2], selection.links_to_scrape[5]>>

(***************************************************************************)
(* scrape_articles, step 1: the limit max_articles.                        *)
(***************************************************************************)

\* C20 as claimed: with max_articles = -1, the default of --max-articles,
\* links_to_scrape is the whole list get_links_list returned.
C20_DefaultLimitSelectsEveryCandidate ==
    selection.made /\ selection.max_articles = -1 =>
        selection.links_to_scrape =
            get_links_list(found_article_links, cached_links, selection.scrape_new_only)

(***************************************************************************)
(* manage_links.py collect [--no-catalogs] [--max-pages N]                 *)
(***************************************************************************)

\* The defaults of collect_all_links.
DefaultMaxPagesPerCatalog == 50

DefaultMaxMainPages == 100

\* Sites whose catalogs hold the same link on every page up to page MaxPages.
CommandSites == {SiteOf([n \in 1..MaxPages |-> p], p) : p \in OneLinkPages}

\* collect_links calls collect_all_links(explore_catalogs=args.explore_catalogs):
\* both max_pages parameters take their defaults.
InitCollectCommand ==
    InitWith({FileOf("missing")}, CommandSites, {DefaultMaxMainPages},
             {DefaultMaxPagesPerCatalog})

\* main parses the arguments of collect; collect_links constructs its collector.
CollectCommand ==
    /\ pc = "new"
    /\ \E n \in 1..MaxPages : max_pages_option' = n
    /\ \E exists \in ExistsOutcomes(cache_file) :
          LET r == _load_cached_links(cache_file, exists)
          IN  /\ loaded' = [file |-> cache_file, result |-> r]
              /\ cached_links' = r.value
              /\ pc' = IF r.exception = "none" THEN "idle" ELSE "raised"
    /\ visited_pages' = {}
    /\ found_article_links' = {}
    /\ found_catalog_links' = {}
    /\ UNCHANGED <<cache_file, site, args_vars, walk_vars, selection, walk_history, update_log,
                   validation, classify_vars, extract_vars, batch_vars, session>>

\* collect_links after collect_all_links returned: update_cache(save_to_cache=True)
CollectLinksUpdate ==
    /\ pc = "returned"
    /\ \E outcome \in SaveOutcomesFor(cache_file) :
          LET u == update_cache(TRUE, outcome)
          IN  /\ cached_links' = u.cached_links
              /\ cache_file' = u.cache_file
              /\ update_log' = Append(update_log, UpdateEntry(TRUE, outcome, u))
    /\ pc' = "collected"
    /\ UNCHANGED <<site, visited_pages, found_article_links, found_catalog_links, args_vars,
                   walk_vars, selection, loaded, walk_history>>
    /\ UNCHANGED client_vars

NextCollectCommand ==
    \/ CollectCommand
    \/ CollectAllLinks
    \/ BrowserFailsToStart
    \/ MainWalkStep
    \/ ExploreAllCatalogs
    \/ StartCatalogWalk
    \/ CatalogWalkStep
    \/ CollectReturns
    \/ CollectLinksUpdate

SpecCollectCommand == InitCollectCommand /\ [][NextCollectCommand]_vars

\* C21 as claimed: a catalog walk of collect --max-pages N fetches at most N pages.
C21_MaxPagesOptionCapsCatalogWalks ==
    catalog_url # "" => walk_fetches <= max_pages_option

(***************************************************************************)
(* A browser session that does not start.                                  *)
(***************************************************************************)

\* collect_all_links raised: the collector was constructed, the browser did not start.
SessionStartFailed == pc = "raised" /\ loaded.result.exception = "none"

\* C22: when the browser does not start collect_all_links raises before any walk:
\* no page is fetched, no link found, update_cache and the selection of
\* scrape_articles are not reached and the cache file is the one __init__ found;
\* update_cache and the selection after a collection are reached only when the
\* session started and the main walk ran.
C22_SessionStartFailureIsFatal ==
    /\ SessionStartFailed =>
          /\ walked = {}
          /\ walk_fetches = 0
          /\ visited_pages = {} /\ found_article_links = {} /\ found_catalog_links = {}
          /\ update_log = <<>>
          /\ ~selection.made
          /\ cache_file = loaded.file
          /\ cached_links = loaded.result.value
    /\ pc = "returned" \/ update_log # <<>> => base_url \in walked
    /\ selection.made /\ selection.collect_new_links => base_url \in walked

\* The browser did not start on a collector that had loaded links from its cache file.
C22_Witness ==
    /\ SessionStartFailed
    /\ cache_file.kind = "record"
    /\ cached_links # {}

(***************************************************************************)
(* The three sets of a collector.                                          *)
(***************************************************************************)

\* C23 as claimed: every element of visited_pages, found_article_links and
\* found_catalog_links is its own normal form: no query string, no fragment, no
\* trailing slash.
C23_SetsHoldNormalizedUrls ==
    \A u \in visited_pages \cup found_article_links \cup found_catalog_links :
        CleanUrl(u) = u

\* C24 as claimed: when collect_all_links has returned, visited_pages is the set
\* of the page URLs the run navigated to.
C24_VisitedPagesAreThePagesFetched ==
    pc = "returned" => visited_pages = navigation.fetched

(***************************************************************************)
(* collect_all_links called again on the same collector, as each           *)
(* scrape_articles(collect_new_links=True) call on one BatchScraper does.  *)
(***************************************************************************)

\* The most collect_all_links calls on one collector.
MaxRuns == 2

\* The next call: the three sets are kept, the browser starts, the main walk begins.
CollectAllLinksAgain ==
    /\ pc = "returned"
    /\ navigation.run < MaxRuns
    /\ pc' = "main"
    /\ catalog_url' = ""
    /\ current_page' = 1
    /\ consecutive_empty_pages' = 0
    /\ stop_reason' = "none"
    /\ last_fetch' = "none"
    /\ catalogs_listed' = {}
    /\ walked' = {base_url}
    /\ walked_after_raise' = FALSE
    /\ walk_fetches' = 0
    /\ walk_log' = <<>>
    /\ unharvested' = {}
    /\ navigation' = [navigation EXCEPT !.run = @ + 1, !.fetched = {}]
    /\ UNCHANGED <<cache_file, site, collector_vars, args_vars, catalogs_todo, selection,
                   loaded, update_log>>
    /\ session' = [Launched EXCEPT !.pages = {0}]
    /\ UNCHANGED command_vars

NextRepeat ==
    \/ Construct
    \/ CollectAllLinks
    \/ BrowserFailsToStart
    \/ MainWalkStep
    \/ ExploreAllCatalogs
    \/ StartCatalogWalk
    \/ CatalogWalkStep
    \/ CollectReturns
    \/ CollectAllLinksAgain

InitRepeat == InitWith({FileOf("missing")}, {AnySite}, {1}, Caps)

SpecRepeat == InitRepeat /\ [][NextRepeat]_vars

\* The root of the walk last started.
WalkRoot == IF catalog_url = "" THEN base_url ELSE catalog_url

\* C25: no page.goto targets a URL that is in visited_pages, a walk that builds
\* such a URL stops there having fetched only the pages before it, and no URL is
\* the target of two page.goto calls of one collect_all_links run.
C25_NoVisitedPageIsFetchedAgain ==
    /\ ~navigation.revisited
    /\ ~navigation.again
    /\ stop_reason = "AlreadyVisited" =>
          /\ PageUrl(WalkRoot, current_page) \in visited_pages
          /\ walk_fetches = current_page - 1

\* In the second run the walk of a catalog stopped at its first page, which the
\* first run had visited, after the walk of another catalog had fetched a page
\* again that the first run had fetched and left out of visited_pages.
C25_Witness ==
    /\ navigation.run = 2
    /\ catalog_url # ""
    /\ stop_reason = "AlreadyVisited"
    /\ walk_fetches = 0
    /\ navigation.fetched # {}

(***************************************************************************)
(* scraper.py: the collector is constructed, links are collected or taken  *)
(* from the cache, and the selected articles are scraped.                  *)
(***************************************************************************)

NextSession ==
    \/ Construct
    \/ CollectAllLinks
    \/ BrowserFailsToStart
    \/ MainWalkStep
    \/ ExploreAllCatalogs
    \/ StartCatalogWalk
    \/ CatalogWalkStep
    \/ CollectReturns
    \/ UpdateCache
    \/ ScrapeSelectAfterCollect
    \/ ScrapeSelectCached
    \/ NothingToScrape
    \/ LaunchBrowser
    \/ LaunchFails
    \/ StartBatch
    \/ TaskOpensPage
    \/ TaskEnds
    \/ JoinBatch
    \/ ScrapeReturns

\* No cache file, or one that holds every article link of the site.
InitSession ==
    InitWith({FileOf("missing"), CacheData(ArticleLinks, 0, 0)}, {AnySite}, {1}, {1})

SpecSession == InitSession /\ [][NextSession]_vars

\* Where collect_all_links or step 2 of scrape_articles is inside its
\* async with async_playwright() block.
InSession == pc \in {"main", "main_done", "catalogs", "catalog", "batch", "gather", "closing"}

\* C26: the page of a task that has returned or raised is closed; outside
\* collect_all_links and step 2 of scrape_articles, whether they returned or
\* raised, no browser, context or page is open; and a page is open only in an
\* open context of an open browser.
C26_BrowserResourcesAreReleased ==
    /\ \A k \in 1..Len(tasks) : tasks[k] \in TaskDone => k \notin session.pages
    /\ ~InSession =>
          /\ session.browser # "open"
          /\ session.context # "open"
          /\ session.pages = {}
    /\ session.pages # {} => session.browser = "open" /\ session.context = "open"

\* scrape_articles returned after a collection: one task returned its Article,
\* the extraction of the other raised, and the browser is closed.
C26_Witness ==
    /\ pc = "scrape_returned"
    /\ selection.collect_new_links
    /\ Range(tasks) = {"article", "none"}
    /\ session.browser = "closed"
    /\ session.context = "closed"

(***************************************************************************)
(* The reserved words of the classifier.                                   *)
(***************************************************************************)

\* C27 as claimed: a URL whose slug is one of about, contact, archive, search,
\* index is not an article link.
C27_ReservedWordsAreNotArticles ==
    classified.made /\ SlugOfLink \in exclude_words => ~classified.article

(***************************************************************************)
(* cached_links and the cache file after update_cache.                     *)
(***************************************************************************)

\* C28 as claimed: after every update_cache call cached_links is the set of
\* links the cache file persists, and a call with save_to_cache false or with
\* found_article_links empty changes neither cached_links nor the cache file.
C28_CachedLinksArePersistedLinks ==
    \A i \in 1..Updates :
        LET e == update_log[i]
        IN  /\ CachedAfter(i) = Persisted(FileAfter(i))
            /\ ~e.save_to_cache \/ e.found = {} =>
                  /\ CachedAfter(i) = e.cached_before
                  /\ FileAfter(i) = e.file_before

(***************************************************************************)
(* _categorize_links, called any number of times with any set of links.    *)
(***************************************************************************)

InitCategorize ==
    /\ CollectorUnused
    /\ selection = NoSelection
    /\ ClientsIdle
    /\ pc = "categorize"

\* self._categorize_links(links, source)
Categorize ==
    /\ pc = "categorize"
    /\ \E links \in SUBSET CategorizeInputs :
          /\ found_article_links' = CategorizedArticles(links, found_article_links)
          /\ found_catalog_links' = CategorizedCatalogs(links, found_catalog_links)
    /\ UNCHANGED <<cache_file, site, cached_links, visited_pages, args_vars, pc, walk_vars,
                   selection, loaded, walk_history, update_log>>
    /\ UNCHANGED client_vars

SpecCategorize == InitCategorize /\ [][Categorize]_vars

\* C29: every link in found_article_links passes _is_valid_article_link, every
\* link in found_catalog_links passes _is_catalog_link and fails
\* _is_valid_article_link, and the two sets are disjoint.
C29_FoundSetsAreClassifiedAndDisjoint ==
    /\ \A l \in found_article_links : _is_valid_article_link(l)
    /\ \A l \in found_catalog_links : _is_catalog_link(l) /\ ~_is_valid_article_link(l)
    /\ found_article_links \cap found_catalog_links = {}

\* A link that passes both classifiers was categorized, with a catalog link:
\* it is an article link only.
C29_Witness ==
    /\ SiteOrigin \o "/tag" \o BatchSegment \o "on-ai" \in found_article_links
    /\ base_url \o "tag/a" \in found_catalog_links

(***************************************************************************)
(* scrape_articles called again on the same BatchScraper.                  *)
(***************************************************************************)

MaxKept == 1

\* scrape_articles(max_articles=n, collect_new_links=False) is called again after
\* it returned with at most MaxKept articles in self.articles: links_to_scrape is
\* selected anew from the same cache, and self.articles, set in __init__ only,
\* is kept.
ScrapeArticlesAgain ==
    /\ pc = "scrape_returned"
    /\ Len(articles) <= MaxKept
    /\ \E n \in 0..MaxLinks :
          selection' = [selection EXCEPT !.max_articles = n,
                                         !.links_to_scrape = ScrapeLinks(n)]
    /\ batch_start' = 0
    /\ tasks' = <<>>
    /\ session' = NoSession
    /\ pc' = "selected"
    /\ UNCHANGED <<collect_state, validation, max_pages_option, classify_vars, extract_vars,
                   articles>>

NextScrapeAgain ==
    \/ NextScrape
    \/ ScrapeArticlesAgain

SpecScrapeAgain == InitScrape /\ [][NextScrapeAgain]_vars

\* The list scrape_articles returns: [] when there is nothing to scrape,
\* self.articles otherwise.
ReturnedArticles == IF selection.links_to_scrape = <<>> THEN <<>> ELSE articles

\* 'total_articles' of _index.json as _save_articles last wrote it.
IndexTotalArticles == Len(articles)

\* C30 as claimed: the list a call returns holds at most one Article per URL and
\* only Articles of the URLs selected in that call, and total_articles of the
\* index is the number of distinct articles scraped.
C30_ReturnedArticlesAreThoseOfTheCall ==
    pc = "scrape_returned" =>
        /\ \A i, j \in 1..Len(ReturnedArticles) :
              ReturnedArticles[i] = ReturnedArticles[j] => i = j
        /\ Range(ReturnedArticles) \subseteq Range(selection.links_to_scrape)
        /\ IndexTotalArticles = Cardinality(Range(articles))

====
